---- MODULE Spec2Model ----
(***************************************************************************)
(* Model of the SSE chat backend of src/server.js: the message store (the  *)
(* `messages` and `audit_logs` tables), the registry of open SSE responses *)
(* (`clients`), the synchronous fan-out `broadcast`, and the three         *)
(* publish-trigger handlers POST /send, PUT /messages/:id and              *)
(* DELETE /messages/:id, each split at its `await` points.                 *)
(***************************************************************************)
EXTENDS Naturals, Integers, Sequences, FiniteSets, TLC

\* ---------------------------------------------------------------- bounds
MaxPubs     == 2    \* calls of broadcast in one run
MaxConns    == 2    \* GET /events connections opened in one run
MaxMsgs     == 1    \* message ids handed out by uuidv4 in one run
MaxInFlight == 2    \* publish-trigger requests awaiting a query at one time

Slots  == 1..MaxInFlight
Conns  == 1..MaxConns
MsgIds == 1..MaxMsgs

\* Request bodies: text as a sequence of characters, "_" standing for a blank.
SendTexts == { <<"_">>, <<"_", "a">> }
EditTexts == { <<>>, <<"b", "_">> }

NoRow == [none |-> TRUE]

\* ---------------------------------------------------------------- state
VARIABLES
  messages,     \* messages table: id -> row or NoRow
  audit_logs,   \* audit_logs table: number of rows
  nextId,       \* number of message ids in use
  clients,      \* the registry: array of open SSE responses
  sock,         \* transport of each response: "none", "open", "broken", "closed"
  nextConn,     \* number of GET /events requests served
  reqs,         \* the handlers suspended at an await: locals and position
  pubCount,     \* number of calls of broadcast so far
  lastPub,      \* the call of broadcast made by the latest step, if it made one
  lastDone,     \* the response sent by the latest step, if it sent one
  stream,       \* history: per connection, the events written successfully
  subAt,        \* history: pubCount when the connection subscribed
  nSub,         \* history: number of Subscribes
  nUnsub,       \* history: number of Unsubscribes that removed a present connection
  variant,      \* which of the near-duplicate servers is running
  bulk,         \* a block of older rows of the messages table: how many, how old
  pending,      \* ids of inserted messages whose handler has not yet broadcast
  orphans,      \* ids of messages whose handler was stopped before its broadcast
  view,         \* one client: its backfill rows and the events it was streamed
  lastRead,     \* the GET /messages response sent by the latest step, if any
  lastSweep,    \* the rows removed by the latest step, as they were before it
  idle,         \* per SSE client of part_000: Date.now() - lastActive, in minutes
  finished,     \* per SSE client of part_000: res.finished
  lastHub,      \* what the latest step of the part_000 hub did, if it was one
  lastReq,      \* the request served by the latest step of a token-checking handler
  rooms,        \* chat-worker.js: room name -> the sockets added to its Set
  currentRoom,  \* chat-worker.js: per socket, the room of its latest join
  readyState,   \* chat-worker.js: per socket, 0 before accept, 1 open, 3 closed
  lastMsg,      \* chat-worker.js: the fan-out made by the latest step, if any
  now,          \* index.js: Date.now(), in ms since the process started
  lastOut,      \* index.js: the message broadcast by the latest step, if any
  iter,         \* part_006: the loop over the registry that is running, if any
  known,        \* server.js: the message ids a client has read from GET /messages
  boot,         \* server.js: how far the start of the process has got
  issued        \* server.js: the statements handed to pool.query, in order

storeExt == << variant, bulk, pending, orphans, view, lastRead, lastSweep >>
hubExt   == << idle, finished, lastHub >>
gateExt  == << lastReq >>
roomExt  == << rooms, currentRoom, readyState, lastMsg >>
histExt  == << now, lastOut >>
loopExt  == << iter >>
raceExt  == << known >>
startExt == << boot, issued >>
moreExt  == << gateExt, roomExt, histExt, loopExt, raceExt, startExt >>
extVars  == << storeExt, hubExt, moreExt >>

vars == << messages, audit_logs, nextId, clients, sock, nextConn, reqs, pubCount,
           lastPub, lastDone, stream, subAt, nSub, nUnsub, extVars >>

storeVars == << messages, audit_logs, nextId >>
hubVars   == << clients, sock, nextConn, subAt, nSub, nUnsub >>
logVars   == << pubCount, stream >>

NoPub == [seq |-> 0]
Quiet == lastPub' = NoPub

\* the variables of the other servers of the repository, while they are not running
NoReq == [op |-> "none"]
MaxSockets == 2   \* WebSocket upgrades accepted by chat-worker.js in one run
Sockets   == 1..MaxSockets
RoomNames == { "r", "s" }
NoRoom    == ""
NoMsg     == [op |-> "none"]
RoomsAtRest ==
  /\ rooms = [r \in RoomNames |-> {}]
  /\ currentRoom = [k \in Sockets |-> NoRoom]
  /\ readyState = [k \in Sockets |-> 0]
  /\ lastMsg = NoMsg
NoOut == [type |-> "none"]
HistAtRest ==
  /\ now = 0
  /\ lastOut = NoOut
NoIter == [on |-> FALSE]
NotStarted == [pc |-> "off", tables |-> FALSE, selfPing |-> FALSE, sweep |-> "none",
               schema |-> "none", listening |-> FALSE]
MoreAtRest ==
  /\ lastReq = NoReq
  /\ RoomsAtRest
  /\ HistAtRest
  /\ iter = NoIter
  /\ known = {}
  /\ boot = NotStarted
  /\ issued = << >>

\* ---------------------------------------------------------------- helpers
Range(s) == { s[i] : i \in 1..Len(s) }

RECURSIVE TrimLeft(_)
TrimLeft(s) == IF s # <<>> /\ Head(s) = "_" THEN TrimLeft(Tail(s)) ELSE s

RECURSIVE TrimRight(_)
TrimRight(s) ==
  IF s # <<>> /\ s[Len(s)] = "_" THEN TrimRight(SubSeq(s, 1, Len(s) - 1)) ELSE s

\* String(req.body.text || "").trim()
Trim(s) == TrimRight(TrimLeft(s))

\* clients.filter(c => c !== res)
Unsubscribe_keepAll(cl, c) == cl
Unsubscribe(cl, c) == SelectSeq(cl, LAMBDA x : x # c)

\* clients.push(res)
Subscribe_drop(cl, c) == cl
Subscribe_twice(cl, c) == cl \o << c, c >>
Subscribe_push(cl, c) == Append(cl, c)

\* res.write(payload): throws on a broken transport
WriteThrows(c) == sock[c] = "broken"

\* the frame lands behind the frames already written to that response
WriteFrame_front(s, f) == << f >> \o s
WriteFrame(s, f) == Append(s, f)

\* ---------------------------------------------------------------- broadcast
\* clients.forEach(res => { try { res.write(payload) } catch (e) {} }):
\* the responses whose write is attempted, in order. The try/catch sits inside
\* the callback, so a throwing write does not end the iteration.
FirstThrow(cl) ==
  IF \E k \in 1..Len(cl) : WriteThrows(cl[k])
  THEN CHOOSE k \in 1..Len(cl) :
         WriteThrows(cl[k]) /\ \A j \in 1..(k - 1) : ~WriteThrows(cl[j])
  ELSE 0

Tried_abort(cl) == IF FirstThrow(cl) = 0 THEN cl ELSE SubSeq(cl, 1, FirstThrow(cl))

\* a retry would come after the first pass over the registry
Tried_retry(cl) == cl \o SelectSeq(cl, LAMBDA c : WriteThrows(c))
Tried(cl) == cl

\* an exception escapes broadcast only if the iteration was cut short
BroadcastThrows(cl) == Len(Tried(cl)) < Len(cl)

\* catch (e) { /* ignore */ }: the registry is left as it was
RegistryAfter_evict(cl) == SelectSeq(cl, LAMBDA c : ~WriteThrows(c))
RegistryAfter(cl) == cl

\* the writes of one broadcast: frame f reaches every response tried whose
\* write does not throw
RECURSIVE Deliver(_, _, _)
Deliver(st, tried, f) ==
  IF tried = <<>> THEN st
  ELSE LET c == Head(tried) IN
       Deliver(IF WriteThrows(c) THEN st ELSE [st EXCEPT ![c] = WriteFrame(@, f)],
               Tail(tried), f)

\* is the change an event announces in the messages table?
InStore(ev) ==
  /\ messages[ev.id] # NoRow
  /\ ev.type = "edit" => messages[ev.id].edited
  /\ ev.type = "delete" => messages[ev.id].deleted

\* broadcast(obj) called by the handler in slot s
broadcast(s, ev) ==
  /\ pubCount' = pubCount + 1
  /\ lastPub' = [seq |-> pubCount + 1, ev |-> ev, wrote |-> reqs[s].wrote,
                 pre |-> reqs[s].pre, reg |-> clients, tried |-> Tried(clients),
                 failed |-> { c \in Range(Tried(clients)) : WriteThrows(c) },
                 stored |-> InStore(ev)]
  /\ stream' = Deliver(stream, Tried(clients),
                       [seq |-> pubCount + 1, type |-> ev.type, id |-> ev.id])
  /\ clients' = RegistryAfter(clients)

\* ---------------------------------------------------------------- requests
IdleReq == [kind |-> "none", id |-> 0, text |-> <<>>, pc |-> "idle", status |-> 0,
            wrote |-> "no", pre |-> NoRow, post |-> NoRow, pub |-> 0, audit |-> "none"]

InFlight == { s \in Slots : reqs[s].pc # "idle" }

\* a request is taken by the lowest free slot, while the run can still broadcast for it
Accepts(s) ==
  /\ reqs[s].pc = "idle"
  /\ \A t \in Slots : t < s => reqs[t].pc # "idle"
  /\ pubCount + Cardinality(InFlight) < MaxPubs

\* the handler's continuation after `await pool.query(<message write>)`:
\* a rejected query goes to the catch block (500), rowCount 0 to 404,
\* anything else on to the audit insert
AfterWrite_ignoreError(ok, rowCount) == IF ok /\ rowCount = 0 THEN "404" ELSE "audit"
AfterWrite_notFoundOnError(ok, rowCount) ==
  IF ~ok \/ rowCount = 0 THEN "404" ELSE "audit"
AfterWrite(ok, rowCount) ==
  IF ~ok THEN "500" ELSE IF rowCount = 0 THEN "404" ELSE "audit"

\* status sent once broadcast has returned (or thrown into the catch block)
FinalStatus(cl) == IF BroadcastThrows(cl) THEN 500 ELSE 200

\* pool.query resolves (TRUE) or rejects (FALSE)
Outcomes == BOOLEAN

\* the request is answered at once: validation error
Reject(kind, id) ==
  /\ lastDone' = [IdleReq EXCEPT !.kind = kind, !.id = id, !.pc = "done", !.status = 400]
  /\ UNCHANGED reqs

\* the handler resumes after `await pool.query(<message write>)`; pre and post
\* are the row before and after the statement
AfterQuery(s, kind, id, text, ok, rowCount, pre, post) ==
  LET nxt == AfterWrite(ok, rowCount)
      q   == [IdleReq EXCEPT !.kind = kind, !.id = id, !.text = text,
                             !.wrote = IF ok THEN "ok" ELSE "fail",
                             !.pre = pre, !.post = post]
  IN  IF nxt = "audit"
      THEN /\ reqs' = [reqs EXCEPT ![s] = [q EXCEPT !.pc = "audit"]]
           /\ lastDone' = IdleReq
      ELSE /\ lastDone' = [q EXCEPT !.pc = "done",
                                    !.status = IF nxt = "404" THEN 404 ELSE 500]
           /\ UNCHANGED reqs

\* catch(e){ /* non-fatal */ }: the outcome of the audit insert does not
\* reach the response
AuditStatus_fatal(ok, st) == IF ok THEN st ELSE 500
AuditStatus(ok, st) == st

\* try { await pool.query(INSERT INTO audit_logs ...) } catch (e) {}, then
\* broadcast(ev), then res.json({ok: true, id})
AuditThenBroadcast(s, ok, ev) ==
  /\ audit_logs' = audit_logs + (IF ok THEN 1 ELSE 0)
  /\ broadcast(s, ev)
  /\ lastDone' = [reqs[s] EXCEPT !.pc = "done",
                                 !.status = AuditStatus(ok, FinalStatus(clients)),
                                 !.pub = pubCount + 1,
                                 !.audit = IF ok THEN "ok" ELSE "fail"]
  /\ reqs' = [reqs EXCEPT ![s] = IdleReq]
  /\ UNCHANGED << messages, nextId, sock, nextConn, subAt, nSub, nUnsub, extVars >>

\* --- POST /send, from the request to the completion of the INSERT
\* INSERT INTO messages (...) VALUES (...) RETURNING created_at
Send(s, raw, ok) ==
  /\ Accepts(s)
  /\ LET text == Trim(raw) IN
     IF text = <<>>
     THEN /\ ok
          /\ Reject("create", 0)
          /\ UNCHANGED << nextId, messages >>
     ELSE /\ nextId < MaxMsgs
          /\ nextId' = nextId + 1
          /\ LET id  == nextId + 1
                 row == [text |-> text, edited |-> FALSE, deleted |-> FALSE]
             IN /\ messages' = IF ok THEN [messages EXCEPT ![id] = row] ELSE messages
                /\ AfterQuery(s, "create", id, text, ok, 1, messages[id], messages'[id])
  /\ Quiet
  /\ UNCHANGED << audit_logs, hubVars, logVars, extVars >>

SendBroadcast(s, ok) ==
  /\ reqs[s].kind = "create" /\ reqs[s].pc = "audit"
  /\ AuditThenBroadcast(s, ok, [type |-> "message", id |-> reqs[s].id,
                                text |-> reqs[s].text])

\* --- PUT /messages/:id, from the request to the completion of the UPDATE
\* UPDATE messages SET text=$2, edited=true WHERE id=$1
EditMatches(id) == messages[id] # NoRow

Edit(s, id, raw, ok) ==
  /\ Accepts(s)
  /\ LET newText == Trim(raw) IN
     IF newText = <<>>
     THEN /\ ok
          /\ Reject("edit", id)
          /\ UNCHANGED messages
     ELSE LET hit == ok /\ EditMatches(id) IN
          /\ messages' = IF hit
                         THEN [messages EXCEPT ![id].text = newText, ![id].edited = TRUE]
                         ELSE messages
          /\ AfterQuery(s, "edit", id, newText, ok, IF hit THEN 1 ELSE 0,
                        messages[id], messages'[id])
  /\ Quiet
  /\ UNCHANGED << audit_logs, nextId, hubVars, logVars, extVars >>

\* the event payload is the row the UPDATE returned
PayloadText_none(row) == <<>>
PayloadText(row) == IF row = NoRow THEN <<>> ELSE row.text

EditBroadcast(s, ok) ==
  /\ reqs[s].kind = "edit" /\ reqs[s].pc = "audit"
  /\ AuditThenBroadcast(s, ok, [type |-> "edit", id |-> reqs[s].id,
                                text |-> PayloadText(reqs[s].post)])

\* --- DELETE /messages/:id, from the request to the completion of the UPDATE
\* UPDATE messages SET deleted=true, deleted_at=now(), deleted_by=$2 WHERE id=$1
DeleteMatches(id) == messages[id] # NoRow

Delete(s, id, ok) ==
  /\ Accepts(s)
  /\ LET hit == ok /\ DeleteMatches(id) IN
     /\ messages' = IF hit THEN [messages EXCEPT ![id].deleted = TRUE] ELSE messages
     /\ AfterQuery(s, "delete", id, <<>>, ok, IF hit THEN 1 ELSE 0,
                   messages[id], messages'[id])
  /\ Quiet
  /\ UNCHANGED << audit_logs, nextId, hubVars, logVars, extVars >>

DeleteBroadcast(s, ok) ==
  /\ reqs[s].kind = "delete" /\ reqs[s].pc = "audit"
  /\ AuditThenBroadcast(s, ok, [type |-> "delete", id |-> reqs[s].id])

\* ---------------------------------------------------------------- the hub
\* GET /events: clients.push(res)
Subscribe(c) ==
  /\ c = nextConn + 1 /\ c \in Conns
  /\ nextConn' = c
  /\ sock' = [sock EXCEPT ![c] = "open"]
  /\ clients' = Subscribe_push(clients, c)
  /\ subAt' = [subAt EXCEPT ![c] = pubCount]
  /\ nSub' = nSub + 1
  /\ Quiet /\ lastDone' = IdleReq
  /\ UNCHANGED << storeVars, reqs, logVars, nUnsub, extVars >>

\* the transport of an open response fails: from now on res.write throws, and
\* the history kept for the connection ends
TransportFail(c) ==
  /\ sock[c] = "open"
  /\ sock' = [sock EXCEPT ![c] = "broken"]
  /\ stream' = [stream EXCEPT ![c] = <<>>]
  /\ subAt' = [subAt EXCEPT ![c] = 0]
  /\ Quiet /\ lastDone' = IdleReq
  /\ UNCHANGED << storeVars, reqs, pubCount, clients, nextConn, nSub, nUnsub, extVars >>

\* req.on("close", () => { clients = clients.filter(c => c !== res) })
Close(c) ==
  /\ sock[c] \in {"open", "broken"}
  /\ sock' = [sock EXCEPT ![c] = "closed"]
  /\ clients' = Unsubscribe(clients, c)
  /\ nUnsub' = nUnsub + (IF c \in Range(clients) THEN 1 ELSE 0)
  /\ stream' = [stream EXCEPT ![c] = <<>>]
  /\ subAt' = [subAt EXCEPT ![c] = 0]
  /\ Quiet /\ lastDone' = IdleReq
  /\ UNCHANGED << storeVars, reqs, pubCount, nextConn, nSub, extVars >>

\* ------------------------------------------- the hub of part_000
\* SSE clients are objects { res, id, lastActive }. The registry is swept by
\* cleanupDeadClients every 5 minutes and every client is written a keep-alive
\* comment every SSE_KEEPALIVE_INTERVAL_MS. `sock` is the transport of a
\* client: "open"; "gone" when the peer has closed it and the close event is
\* on its way; "lost" when the peer has closed it and no close event will
\* come; "closed" once the close handler has run.
MaxIdle    == 30   \* minutes: 30 * 60 * 1000 ms
MinuteStep == 15   \* minutes that pass in one step of the clock

NoHub == [op |-> "none"]

HubAtRest ==
  /\ idle = [c \in Conns |-> 0]
  /\ finished = [c \in Conns |-> FALSE]
  /\ lastHub = NoHub

hubRest == << messages, audit_logs, nextId, reqs, pubCount, lastPub, lastDone,
              stream, subAt, nSub, nUnsub, storeExt, moreExt >>

\* time passes: Date.now() - c.lastActive grows for every client; the code
\* only asks whether it exceeds MaxIdle, so a larger value is kept as MaxIdle + 1
HubTick ==
  /\ idle' = [c \in Conns |->
                IF idle[c] + MinuteStep > MaxIdle THEN MaxIdle + 1
                ELSE idle[c] + MinuteStep]
  /\ lastHub' = NoHub
  /\ UNCHANGED << clients, sock, nextConn, finished, hubRest >>

\* id: crypto.randomUUID(): an identifier no earlier connection was given
NewClientId_reuse == IF nextConn < MaxConns THEN nextConn + 1 ELSE 1
NewClientId == nextConn + 1

\* GET /events: client = { res, id, lastActive: Date.now() }; clients.push(client)
HubSubscribe(c) ==
  /\ c = NewClientId /\ c \in Conns
  /\ nextConn' = c
  /\ sock' = [sock EXCEPT ![c] = "open"]
  /\ clients' = Subscribe_push(clients, c)
  /\ idle' = [idle EXCEPT ![c] = 0]
  /\ lastHub' = [op |-> "subscribe", who |-> c]
  /\ UNCHANGED << finished, hubRest >>

\* the peer closes the transport; the close event of the request follows,
\* or never comes
TransportGone(c, notified) ==
  /\ sock[c] = "open"
  /\ sock' = [sock EXCEPT ![c] = IF notified THEN "gone" ELSE "lost"]
  /\ lastHub' = NoHub
  /\ UNCHANGED << clients, nextConn, idle, finished, hubRest >>

\* req.on("close", () => { clients = clients.filter(c => c !== client) })
CloseEvent(c) ==
  /\ sock[c] = "gone"
  /\ sock' = [sock EXCEPT ![c] = "closed"]
  /\ clients' = Unsubscribe(clients, c)
  /\ lastHub' = NoHub
  /\ UNCHANGED << nextConn, idle, finished, hubRest >>

\* c.res.write can only throw on a transport the peer has closed; whether it
\* does then is up to the runtime
MayThrow == { c \in Range(clients) : sock[c] \in { "gone", "lost" } }

\* try { c.res.write(...); c.lastActive = Date.now() } catch {}
Refreshed(cl, throws) == Range(cl) \ throws

\* the catch block is empty: the registry is left as it was
BeatRegistry_evict(cl, throws) == SelectSeq(cl, LAMBDA c : c \notin throws)
BeatRegistry(cl, throws) == cl

WriteAll(op, throws) ==
  /\ throws \subseteq MayThrow
  /\ idle' = [c \in Conns |-> IF c \in Refreshed(clients, throws) THEN 0 ELSE idle[c]]
  /\ clients' = BeatRegistry(clients, throws)
  /\ lastHub' = [op |-> op, reg |-> clients, tried |-> Tried(clients),
                 failed |-> throws, idleBefore |-> idle]
  /\ UNCHANGED << sock, nextConn, finished, hubRest >>

\* setInterval(() => { if (clients.length === 0) return; clients.forEach(...) })
Heartbeat(throws) ==
  /\ clients # <<>>
  /\ WriteAll("beat", throws)

\* broadcastEvent(obj), called by a request handler after its store write
broadcastEvent(throws) ==
  /\ clients # <<>>
  /\ WriteAll("broadcast", throws)

\* cleanupDeadClients: clients.filter(c => ...)
IsIdle_orEqual(c) == idle[c] >= MaxIdle
IsIdle(c) == idle[c] > MaxIdle

\* the clients the filter drops: res.finished, or idle for too long
Dropped(cl) == { c \in Range(cl) : finished[c] \/ IsIdle(c) }
\* try { c.res.end() } catch {} for the idle ones not yet finished
Ended(cl) == { c \in Range(cl) : ~finished[c] /\ IsIdle(c) }

cleanupDeadClients ==
  /\ clients' = SelectSeq(clients, LAMBDA c : c \notin Dropped(clients))
  /\ finished' = [c \in Conns |-> finished[c] \/ c \in Ended(clients)]
  /\ sock' = [c \in Conns |->
                IF c \in Ended(clients) /\ sock[c] = "open" THEN "gone" ELSE sock[c]]
  /\ lastHub' = [op |-> "reap", reg |-> clients, ended |-> Ended(clients),
                 finishedBefore |-> finished]
  /\ UNCHANGED << nextConn, idle, hubRest >>

\* ------------------------------------------- retention sweep and backfill
\* The messages table under time: POST /send, PUT and DELETE /messages/:id,
\* cleanupOldMessages and GET /messages of server.js, part_000 and part_004,
\* and one client that reads the backlog and then opens GET /events.
RETENTION_DAYS == 180   \* days a message stays readable
PURGE_DAYS     == 60    \* days a soft-deleted row is kept by part_000/part_004
DefaultLimit   == 1000  \* req.query.limit || 1000
MinLimit       == 50
MaxLimit       == 5000
MaxRows        == 2     \* messages created in one run
DayStep        == 60    \* days that pass in one step of the clock
BulkRows       == 1000  \* rows of the older block

RowIds   == 1..MaxRows
Variants == { "server.js", "part_000", "part_004" }
Groups   == { "g", "h" }
NoGroup  == ""

Min(a, b) == IF a < b THEN a ELSE b
Max(a, b) == IF a > b THEN a ELSE b

\* Time is kept as ages: age = now() - created_at and deleted_age = now() -
\* deleted_at, in days. The statements only compare an age with a threshold,
\* so an age past its threshold is kept as threshold + 1.
Older(a, threshold) == IF a + DayStep > threshold THEN threshold + 1 ELSE a + DayStep

NoBulk == [n |-> 0, age |-> 0]
NoView == [phase |-> "none", back |-> <<>>, before |-> {}, cut |-> 0,
           seen0 |-> {}, regCut |-> 0, got |-> <<>>]
NoRead == [status |-> 0]

StoreAtRest ==
  /\ variant = "server.js"
  /\ bulk = NoBulk
  /\ pending = {}
  /\ orphans = {}
  /\ view = NoView
  /\ lastRead = NoRead
  /\ lastSweep = {}

\* what a step that is neither a read nor a sweep leaves behind
NoOutput == lastRead' = NoRead /\ lastSweep' = {}

baseRest == << audit_logs, clients, sock, nextConn, reqs, pubCount, lastPub,
               lastDone, stream, subAt, nSub, nUnsub, hubExt, moreExt >>

\* the messages whose handler has called broadcast
Announced == (1..nextId) \ (pending \cup orphans)

\* a day boundary passes: every row is DayStep days older
Tick ==
  /\ messages' = [i \in RowIds |->
                    IF messages[i] = NoRow THEN NoRow
                    ELSE [messages[i] EXCEPT
                            !.age = Older(@, RETENTION_DAYS),
                            !.deleted_age = IF messages[i].deleted
                                            THEN Older(@, PURGE_DAYS) ELSE @]]
  /\ bulk' = IF bulk.n = 0 THEN bulk ELSE [bulk EXCEPT !.age = Older(@, RETENTION_DAYS)]
  /\ NoOutput
  /\ UNCHANGED << nextId, variant, pending, orphans, view, baseRest >>

\* POST /send up to the completion of INSERT INTO messages: created_at = now()
Insert(group) ==
  /\ nextId < MaxRows
  /\ nextId' = nextId + 1
  /\ messages' = [messages EXCEPT ![nextId + 1] =
                    [age |-> 0, grp |-> group, edited |-> FALSE, deleted |-> FALSE,
                     deleted_age |-> 0]]
  /\ pending' = pending \cup { nextId + 1 }
  /\ NoOutput
  /\ UNCHANGED << variant, bulk, orphans, view, baseRest >>

\* POST /send from the audit insert on: broadcast({type: "message", ...})
\* writes the message to the client if its GET /events is registered
Announce(id) ==
  /\ id \in pending
  /\ pending' = pending \ { id }
  /\ view' = IF view.phase = "live" THEN [view EXCEPT !.got = Append(@, id)] ELSE view
  /\ NoOutput
  /\ UNCHANGED << messages, nextId, variant, bulk, orphans, baseRest >>

\* the process stops: the handlers waiting to broadcast are gone and every
\* SSE response ends; the messages table stays
ProcessStop ==
  /\ pending # {} \/ view.phase = "live"
  /\ orphans' = orphans \cup pending
  /\ pending' = {}
  /\ view' = NoView
  /\ NoOutput
  /\ UNCHANGED << messages, nextId, variant, bulk, baseRest >>

\* PUT /messages/:id: UPDATE messages SET text=$1, edited=true WHERE id=$2
UpdateText(id) ==
  /\ messages[id] # NoRow
  /\ messages' = [messages EXCEPT ![id].edited = TRUE]
  /\ NoOutput
  /\ UNCHANGED << nextId, variant, bulk, pending, orphans, view, baseRest >>

\* DELETE /messages/:id: UPDATE messages SET deleted=true, deleted_at=now()
SoftDelete_remove(row) == NoRow
SoftDelete_mark(row) == [row EXCEPT !.deleted = TRUE, !.deleted_age = 0]

SoftDelete(id) ==
  /\ messages[id] # NoRow
  /\ messages' = [messages EXCEPT ![id] = SoftDelete_mark(@)]
  /\ NoOutput
  /\ UNCHANGED << nextId, variant, bulk, pending, orphans, view, baseRest >>

\* --- cleanupOldMessages
\* server.js:  DELETE FROM messages WHERE deleted = true
\*               AND created_at < now() - RETENTION_DAYS
\* part_000 and part_004 run two statements:
\*   DELETE ... WHERE deleted = false AND created_at < now() - RETENTION_DAYS
\*   DELETE ... WHERE deleted = true  AND deleted_at < now() - 60 days
Expired(row) == row.age > RETENTION_DAYS

SweepsOld(row) == row.deleted /\ Expired(row)

SweepsExpired(row) == ~row.deleted /\ Expired(row)
SweepsPurged(row) == row.deleted /\ row.deleted_age > PURGE_DAYS

\* the statements that complete: a rejected query ends the function in its
\* catch block
SweepOutcomes == { "ok", "first rejected", "second rejected" }

Swept(row, outcome) ==
  IF variant = "server.js"
  THEN outcome = "ok" /\ SweepsOld(row)
  ELSE \/ outcome # "first rejected" /\ SweepsExpired(row)
       \/ outcome = "ok" /\ SweepsPurged(row)

cleanupOldMessages(outcome) ==
  /\ variant = "server.js" => outcome # "second rejected"
  /\ LET gone == { i \in RowIds : messages[i] # NoRow /\ Swept(messages[i], outcome) }
         bulkRow == [age |-> bulk.age, grp |-> "g", edited |-> FALSE,
                     deleted |-> FALSE, deleted_age |-> 0]
         bulkGone == bulk.n > 0 /\ Swept(bulkRow, outcome)
     IN /\ messages' = [i \in RowIds |-> IF i \in gone THEN NoRow ELSE messages[i]]
        /\ bulk' = IF bulkGone THEN NoBulk ELSE bulk
        /\ lastSweep' = { [id |-> i, row |-> messages[i]] : i \in gone }
                          \cup (IF bulkGone THEN { [id |-> 0, row |-> bulkRow] } ELSE {})
  /\ lastRead' = NoRead
  /\ UNCHANGED << nextId, variant, pending, orphans, view, baseRest >>

\* --- GET /messages
\* const limit = Math.min(5000, Math.max(50, Number(req.query.limit || 1000)))
LimitParams == { [kind |-> "absent", val |-> 0], [kind |-> "text", val |-> 0],
                 [kind |-> "number", val |-> 10], [kind |-> "number", val |-> 9999] }

\* Number(x) of a string that is no numeral is NaN, and so are Math.max and
\* Math.min of it; the query with LIMIT NaN is rejected
LimitIsNaN(p) == p.kind = "text"
limit(p) ==
  Min(MaxLimit, Max(MinLimit, IF p.kind = "absent" THEN DefaultLimit ELSE p.val))

\* created_at >= now() - RETENTION_DAYS; part_004 has no such condition
InWindow(row) == variant = "part_004" \/ row.age <= RETENTION_DAYS

\* only server.js reads include_deleted
ShowsDeleted(includeDeleted) == variant = "server.js" /\ includeDeleted

Selected(row, group, includeDeleted) ==
  /\ row # NoRow
  /\ group # NoGroup => row.grp = group
  /\ ShowsDeleted(includeDeleted) \/ ~row.deleted
  /\ InWindow(row)

\* the rows of the older block that the WHERE clause selects
BulkSelected(group) ==
  IF bulk.n > 0 /\ group \in { NoGroup, "g" } /\ InWindow(bulk) THEN bulk.n ELSE 0

\* ORDER BY created_at ASC LIMIT n: the block first, then the messages of this
\* run in the order of their creation, n rows in all
IdsByCreation(ids) == ids

Rows(group, includeDeleted, n) ==
  LET b   == Min(BulkSelected(group), n)
      ids == IdsByCreation(SelectSeq([i \in RowIds |-> i],
                  LAMBDA i : Selected(messages[i], group, includeDeleted)))
  IN  [bulk |-> b, ids |-> SubSeq(ids, 1, Min(Len(ids), n - b))]

\* byClient: the read is the backfill of the client, made before its GET /events
GetMessages(group, includeDeleted, p, byClient) ==
  /\ lastRead' = IF LimitIsNaN(p)
                 THEN [status |-> 500]
                 ELSE [status |-> 200, group |-> group, includeDeleted |-> includeDeleted,
                       limit |-> limit(p), rows |-> Rows(group, includeDeleted, limit(p))]
  /\ IF byClient
     THEN /\ view.phase = "none" /\ ~LimitIsNaN(p)
          /\ group = NoGroup /\ ~includeDeleted
          /\ view' = [NoView EXCEPT
                        !.phase = "read",
                        !.back = Rows(group, includeDeleted, limit(p)).ids,
                        !.before = { i \in RowIds : messages[i] # NoRow
                                                    /\ ~messages[i].deleted
                                                    /\ messages[i].age <= RETENTION_DAYS },
                        !.cut = nextId]
     ELSE UNCHANGED view
  /\ lastSweep' = {}
  /\ UNCHANGED << messages, nextId, variant, bulk, pending, orphans, baseRest >>

\* GET /events by the client that has read its backfill: clients.push(res)
GetEvents ==
  /\ view.phase = "read"
  /\ view' = [view EXCEPT !.phase = "live", !.seen0 = Announced, !.regCut = nextId]
  /\ NoOutput
  /\ UNCHANGED << messages, nextId, variant, bulk, pending, orphans, baseRest >>

\* every variable that only the request handlers of `Spec` use
BaseAtRest ==
  /\ audit_logs = 0 /\ clients = <<>> /\ sock = [c \in Conns |-> "none"]
  /\ nextConn = 0 /\ reqs = [s \in Slots |-> IdleReq] /\ pubCount = 0
  /\ lastPub = NoPub /\ lastDone = IdleReq
  /\ stream = [c \in Conns |-> <<>>] /\ subAt = [c \in Conns |-> 0]
  /\ nSub = 0 /\ nUnsub = 0
  /\ HubAtRest
  /\ MoreAtRest

\* the messages table holds no message of this run yet
EmptyTable ==
  /\ messages = [i \in RowIds |-> NoRow]
  /\ nextId = 0
  /\ pending = {} /\ orphans = {} /\ view = NoView
  /\ lastRead = NoRead /\ lastSweep = {}

\* --- the life of a row: created, edited, soft-deleted, swept
RetentionInit ==
  /\ variant \in { "server.js", "part_000" }
  /\ bulk = NoBulk
  /\ EmptyTable
  /\ BaseAtRest

RetentionNext ==
  \/ Tick
  \/ Insert("g")
  \/ \E i \in RowIds : Announce(i)
  \/ \E i \in RowIds : UpdateText(i)
  \/ \E i \in RowIds : SoftDelete(i)
  \/ \E o \in SweepOutcomes : cleanupOldMessages(o)

SpecRetention == RetentionInit /\ [][RetentionNext]_vars

\* --- GET /messages: the table holds nothing else, or a block of BulkRows
\* messages just written
ReadInit ==
  /\ variant \in { "server.js", "part_004" }
  /\ bulk \in { NoBulk, [n |-> BulkRows, age |-> 0] }
  /\ EmptyTable
  /\ BaseAtRest

ReadNext ==
  \/ Tick
  \/ \E g \in Groups : Insert(g)
  \/ \E i \in RowIds : Announce(i)
  \/ \E i \in RowIds : SoftDelete(i)
  \/ \E o \in SweepOutcomes : cleanupOldMessages(o)
  \/ \E g \in Groups \cup { NoGroup }, d \in BOOLEAN, p \in LimitParams :
       GetMessages(g, d, p, FALSE)

SpecRead == ReadInit /\ [][ReadNext]_vars

\* --- one client: backfill, then the live stream, over process stops
BackfillInit ==
  /\ variant = "server.js"
  /\ bulk \in { NoBulk, [n |-> BulkRows, age |-> 0] }
  /\ EmptyTable
  /\ BaseAtRest

BackfillNext ==
  \/ Tick
  \/ Insert("g")
  \/ \E i \in RowIds : Announce(i)
  \/ ProcessStop
  \/ \E i \in RowIds : SoftDelete(i)
  \/ \E p \in LimitParams, c \in BOOLEAN : GetMessages(NoGroup, FALSE, p, c)
  \/ GetEvents

SpecBackfill == BackfillInit /\ [][BackfillNext]_vars

\* --- the hub of part_000 on its own
HubInit ==
  /\ clients = <<>> /\ sock = [c \in Conns |-> "none"] /\ nextConn = 0
  /\ HubAtRest
  /\ messages = [i \in MsgIds |-> NoRow] /\ nextId = 0 /\ audit_logs = 0
  /\ reqs = [s \in Slots |-> IdleReq] /\ pubCount = 0
  /\ lastPub = NoPub /\ lastDone = IdleReq
  /\ stream = [c \in Conns |-> <<>>] /\ subAt = [c \in Conns |-> 0]
  /\ nSub = 0 /\ nUnsub = 0
  /\ StoreAtRest
  /\ MoreAtRest

HubNext ==
  \/ HubTick
  \/ \E c \in Conns : HubSubscribe(c)
  \/ \E c \in Conns, notified \in BOOLEAN : TransportGone(c, notified)
  \/ \E c \in Conns : CloseEvent(c)
  \/ \E throws \in SUBSET Conns : Heartbeat(throws)
  \/ \E throws \in SUBSET Conns : broadcastEvent(throws)
  \/ cleanupDeadClients

SpecHub == HubInit /\ [][HubNext]_vars

\* every timer keeps firing and a close event on its way is delivered
SpecHubFair ==
  /\ SpecHub
  /\ WF_vars(HubTick)
  /\ WF_vars(cleanupDeadClients)
  /\ WF_vars(Heartbeat({}))
  /\ \A c \in Conns : WF_vars(CloseEvent(c))

\* ------------------------------------------- the token-checking handlers
\* POST /send and DELETE /messages/:id of part_000 and part_004, which take
\* the sender from a signed token, and of part_002, which takes the sender's
\* phone from the request body. A handler is one step here: the checks that
\* reject a request come before its first await.
TokenDays == 30   \* days: 30 * 24 * 60 * 60 * 1000 ms
MaxPosts  == 1    \* messages created in one run of these handlers

PostIds   == 1..MaxPosts

Idents    == { "p", "q" }
Null      == ""
Thrown    == "throws"
NoImage   == "none"
GateVariants == { "part_000", "part_002", "part_004" }
HasTokens == variant \in { "part_000", "part_004" }

\* A token `${user}.${ts}.${sig}`: the number of its dot-separated parts, the
\* days since ts, and sig: "signed" when it is the HMAC of `${user}:${ts}`,
\* "forged" when it is another string of the same length, "short" when it is
\* a string of another length.
NoToken == [parts |-> 0]
Token(u, a, k) == [parts |-> 3, user |-> u, age |-> a, sig |-> k]
TokenInputs ==
  { NoToken,
    [parts |-> 2, user |-> "p", age |-> 0, sig |-> "signed"],
    Token("p", 0, "short"), Token("p", 0, "forged"),
    Token("p", TokenDays + 1, "signed"),
    Token("p", TokenDays, "signed"), Token("q", 0, "signed") }

\* Date.now() - Number(ts) > thirtyDaysMs
TokenExpired_never(tok) == FALSE
TokenExpired(tok) == tok.age > TokenDays

\* crypto.timingSafeEqual throws when the two buffers differ in length;
\* part_004 catches that, part_000 lets it reach the handler's catch
verifyAuthToken(tok) ==
  IF tok = NoToken THEN Null
  ELSE IF tok.parts # 3 THEN Null
  ELSE IF tok.sig = "short" THEN (IF variant = "part_004" THEN Null ELSE Thrown)
  ELSE IF tok.sig # "signed" THEN Null
  ELSE IF TokenExpired(tok) THEN Null
  ELSE tok.user

\* the users table: avatar_base64 of the user with that phone
Avatar(u) == IF u = "p" THEN "avatar" ELSE NoImage

\* part_002: if (!messageImageBase64 && user.avatar_base64) messageImageBase64 = ...
StoredImage(image, phone) ==
  IF variant = "part_002" /\ phone # Null /\ image = NoImage THEN Avatar(phone)
  ELSE image

\* the statements issued before the validation of the body
QueriesBeforeCheck(phone) ==
  IF variant = "part_002" /\ phone # Null THEN << "SELECT users" >> ELSE << >>

\* the statements issued after it, up to the INSERT
QueriesAfterCheck ==
  IF variant = "part_000" THEN << "SELECT users", "INSERT messages" >>
  ELSE << "INSERT messages" >>

GateReply(req, status, queries, events) ==
  lastReq' = [req EXCEPT !.status = status, !.queries = queries, !.events = events]

GateFrame == << audit_logs, clients, sock, nextConn, reqs, pubCount, lastPub,
                lastDone, stream, subAt, nSub, nUnsub, variant, bulk, pending,
                orphans, view, lastRead, lastSweep, hubExt, roomExt, histExt,
                loopExt, raceExt, startExt >>

\* POST /send; `ok` is whether the INSERT succeeds, for a request that gets
\* that far
GateSend(tok, phone, raw, image, ok) ==
  LET auth  == IF HasTokens THEN verifyAuthToken(tok) ELSE phone
      text  == Trim(raw)
      img   == StoredImage(image, phone)
      id    == nextId + 1
      req   == [op |-> "send", tok |-> tok, phone |-> phone, text |-> text,
                image |-> image, auth |-> auth, id |-> 0,
                status |-> 0, queries |-> << >>, events |-> << >>]
      before == QueriesBeforeCheck(phone)
      all    == before \o QueriesAfterCheck
  IN /\ IF HasTokens THEN phone = Null ELSE tok = NoToken
     /\ IF HasTokens /\ auth = Thrown
        THEN ok /\ GateReply(req, 500, << >>, << >>) /\ UNCHANGED << messages, nextId >>
        ELSE IF HasTokens /\ auth = Null
        THEN ok /\ GateReply(req, 401, << >>, << >>) /\ UNCHANGED << messages, nextId >>
        ELSE IF text = << >> /\ img = NoImage
        THEN ok /\ GateReply(req, 400, before, << >>) /\ UNCHANGED << messages, nextId >>
        ELSE IF ~ok
        THEN GateReply(req, 500, all, << >>) /\ UNCHANGED << messages, nextId >>
        ELSE /\ nextId < MaxPosts
             /\ messages' = [messages EXCEPT ![id] =
                               [text |-> text, image |-> img, sender |-> auth,
                                deleted |-> FALSE]]
             /\ nextId' = id
             /\ GateReply([req EXCEPT !.id = id], 200, all,
                          << [type |-> "message", id |-> id, text |-> text,
                              image |-> img, sender |-> auth] >>)
     /\ UNCHANGED GateFrame

\* WHERE id = $1 AND phone = $2 (part_000), AND user_id = $2 (part_004);
\* part_002 has WHERE id = $1 alone
Owns_any(row, who) == TRUE
Owns(row, who) == HasTokens => row.sender = who

GateDeleteMatches(id, who) == messages[id] # NoRow /\ Owns(messages[id], who)

\* DELETE /messages/:id
GateDelete(tok, id, ok) ==
  LET auth == IF HasTokens THEN verifyAuthToken(tok) ELSE Null
      req  == [op |-> "delete", tok |-> tok, auth |-> auth, id |-> id,
               pre |-> messages[id],
               status |-> 0, queries |-> << >>, events |-> << >>]
      upd  == << "UPDATE messages" >>
  IN /\ HasTokens \/ tok = NoToken
     /\ IF HasTokens /\ auth = Thrown
        THEN ok /\ GateReply(req, 500, << >>, << >>) /\ UNCHANGED messages
        ELSE IF HasTokens /\ auth = Null
        THEN ok /\ GateReply(req, 401, << >>, << >>) /\ UNCHANGED messages
        ELSE IF ~ok
        THEN GateReply(req, 500, upd, << >>) /\ UNCHANGED messages
        ELSE IF GateDeleteMatches(id, auth)
        THEN /\ messages' = [messages EXCEPT ![id].deleted = TRUE]
             /\ GateReply(req, 200, upd, << [type |-> "delete", id |-> id] >>)
        ELSE /\ GateReply(req, IF HasTokens THEN 403 ELSE 404, upd, << >>)
             /\ UNCHANGED messages
     /\ UNCHANGED << nextId, GateFrame >>

GateInit ==
  /\ variant \in GateVariants
  /\ messages = [i \in PostIds |-> NoRow] /\ nextId = 0
  /\ bulk = NoBulk /\ pending = {} /\ orphans = {} /\ view = NoView
  /\ lastRead = NoRead /\ lastSweep = {}
  /\ BaseAtRest

GateNext ==
  \/ \E tok \in TokenInputs, phone \in Idents \cup { Null }, raw \in SendTexts,
        image \in { NoImage, "img" }, ok \in Outcomes :
       GateSend(tok, phone, raw, image, ok)
  \/ \E tok \in TokenInputs, id \in PostIds, ok \in Outcomes : GateDelete(tok, id, ok)

SpecGate == GateInit /\ [][GateNext]_vars

\* ------------------------------------------- the rooms of chat-worker.js
\* every variable of the SSE servers
serverVars == << messages, audit_logs, nextId, clients, sock, nextConn, reqs,
                 pubCount, lastPub, lastDone, stream, subAt, nSub, nUnsub,
                 storeExt, hubExt >>

roomRest == << serverVars, gateExt, histExt, loopExt, raceExt, startExt >>

\* handleWebSocket: server.accept(); let currentRoom = null
Accept(k) ==
  /\ readyState[k] = 0
  /\ \A j \in Sockets : j < k => readyState[j] # 0
  /\ readyState' = [readyState EXCEPT ![k] = 1]
  /\ lastMsg' = NoMsg
  /\ UNCHANGED << rooms, currentRoom, roomRest >>

\* data.type === "join": currentRoom = data.room; rooms[currentRoom].add(server)
Join_add(rm, k, r) == [rm EXCEPT ![r] = @ \cup { k }]

Join(k, r) ==
  /\ readyState[k] = 1
  /\ currentRoom' = [currentRoom EXCEPT ![k] = r]
  /\ rooms' = Join_add(rooms, k, r)
  /\ lastMsg' = NoMsg
  /\ UNCHANGED << readyState, roomRest >>

\* for (const peer of rooms[currentRoom]) if (peer.readyState === 1) peer.send(...)
Peers(k) == { p \in rooms[currentRoom[k]] : readyState[p] = 1 }

\* data.type === "msg" && currentRoom
Msg(k) ==
  /\ readyState[k] = 1
  /\ lastMsg' = IF currentRoom[k] # NoRoom
                THEN [op |-> "msg", from |-> k, room |-> currentRoom[k], to |-> Peers(k)]
                ELSE [op |-> "msg", from |-> k, room |-> NoRoom, to |-> {}]
  /\ UNCHANGED << rooms, currentRoom, readyState, roomRest >>

\* the close event: rooms[currentRoom].delete(server)
SocketClose(k) ==
  /\ readyState[k] = 1
  /\ readyState' = [readyState EXCEPT ![k] = 3]
  /\ rooms' = IF currentRoom[k] # NoRoom
              THEN [rooms EXCEPT ![currentRoom[k]] = @ \ { k }]
              ELSE rooms
  /\ lastMsg' = NoMsg
  /\ UNCHANGED << currentRoom, roomRest >>

RoomsInit ==
  /\ messages = [i \in MsgIds |-> NoRow] /\ nextId = 0
  /\ StoreAtRest
  /\ BaseAtRest

RoomsNext ==
  \/ \E k \in Sockets : Accept(k)
  \/ \E k \in Sockets, r \in RoomNames : Join(k, r)
  \/ \E k \in Sockets : Msg(k)
  \/ \E k \in Sockets : SocketClose(k)

SpecRooms == RoomsInit /\ [][RoomsNext]_vars

\* ------------------------------------------- the history of index.js
\* The WebSocket server of index.js keeps the chat in the array `messages`.
RandomSpan == 999   \* Math.floor(Math.random() * 999) is one of 0..998
HistoryCap == 200   \* if (messages.length > 200) messages.shift()
MaxClock   == 2     \* ms that pass in one run
MaxDraw    == 1     \* largest value of Math.random() * 999 drawn in one run
MaxHistory == 3     \* messages received in one run

Draws == { d \in 0..(RandomSpan - 1) : d <= MaxDraw }

histRest == << nextId, audit_logs, clients, sock, nextConn, reqs, pubCount,
               lastPub, lastDone, stream, subAt, nSub, nUnsub, storeExt, hubExt,
               gateExt, roomExt, loopExt, raceExt, startExt >>

\* The process may have been up for long: the history is empty, or holds
\* HistoryCap - 1 messages received before the run looked at, whose ids are
\* smaller than those of the run.
EarlierHistory == [i \in 1..(HistoryCap - 1) |-> [id |-> i - HistoryCap]]

\* the messages of `messages` received in this run
Received == Cardinality({ i \in 1..Len(messages) : messages[i].id >= 0 })

\* wss.on('connection'): ws.send(JSON.stringify({ type: 'init', messages }))
OnConnection ==
  /\ lastOut' = [type |-> "init", messages |-> messages]
  /\ UNCHANGED << messages, now, histRest >>

\* a millisecond passes
Millisecond ==
  /\ now < MaxClock
  /\ now' = now + 1
  /\ lastOut' = NoOut
  /\ UNCHANGED << messages, histRest >>

\* id: Date.now() + Math.floor(Math.random()*999)
NewId(d) == now + d

\* messages.push(out); if (messages.length > 200) messages.shift()
Pushed_pop(out) ==
  IF Len(messages) + 1 > HistoryCap THEN messages ELSE Append(messages, out)
Pushed(out) ==
  IF Len(messages) + 1 > HistoryCap THEN Tail(Append(messages, out))
  ELSE Append(messages, out)

\* ws.on('message'): JSON.parse throws on `data` that is not JSON, and the
\* catch block drops the message
OnMessage(d, parses) ==
  /\ Received < MaxHistory
  /\ IF parses
     THEN LET out == [id |-> NewId(d)]
          IN /\ messages' = Pushed(out)
             /\ lastOut' = [type |-> "message", message |-> out]
     ELSE /\ d = 0
          /\ lastOut' = NoOut
          /\ UNCHANGED messages
  /\ UNCHANGED << now, histRest >>

HistInit ==
  /\ messages \in { << >>, EarlierHistory } /\ nextId = 0
  /\ StoreAtRest
  /\ BaseAtRest

HistNext ==
  \/ Millisecond
  \/ OnConnection
  \/ \E d \in Draws, parses \in BOOLEAN : OnMessage(d, parses)

SpecHistory == HistInit /\ [][HistNext]_vars

\* ------------------------------------------- the loops of part_006
\* The registry of part_006 is the array bound to `clients`. POST /send and
\* the keep-alive timer loop over it, one write per step here; the keep-alive
\* loop rebinds `clients` to a filtered copy when a write throws. `iter` holds
\* the array the running loop iterates (arr), the position of the loop (k),
\* the registry as the loop found it (snap) and the clients written to (tried).
loopRest == << messages, audit_logs, nextId, reqs, pubCount, lastPub, lastDone,
               stream, subAt, nSub, nUnsub, storeExt, hubExt, gateExt, roomExt,
               histExt, raceExt, startExt >>

\* Handlers and timers are callbacks of the event loop: one is called only
\* when no other is running, and neither loop contains an await.
StackEmpty == ~iter.on

\* app.get("/events"): res.write(":\n\n"); clients.push(res)
LoopSubscribe(c) ==
  /\ StackEmpty
  /\ c = nextConn + 1 /\ c \in Conns
  /\ nextConn' = c
  /\ sock' = [sock EXCEPT ![c] = "open"]
  /\ clients' = Subscribe_push(clients, c)
  /\ UNCHANGED << iter, loopRest >>

\* req.on("close", () => { clients = clients.filter(c => c !== res) })
LoopClose(c) ==
  /\ StackEmpty
  /\ sock[c] \in { "open", "broken" }
  /\ sock' = [sock EXCEPT ![c] = "closed"]
  /\ clients' = Unsubscribe(clients, c)
  /\ UNCHANGED << nextConn, iter, loopRest >>

\* the transport of a response fails, at any time: its next write throws
LoopBreak(c) ==
  /\ sock[c] = "open"
  /\ sock' = [sock EXCEPT ![c] = "broken"]
  /\ UNCHANGED << clients, nextConn, iter, loopRest >>

\* for (const client of clients) in POST /send; clients.forEach in the timer,
\* which returns at once when the registry is empty
LoopStart(op) ==
  /\ StackEmpty
  /\ op = "beat" => clients # <<>>
  /\ iter' = [on |-> TRUE, op |-> op, arr |-> clients, k |-> 1, snap |-> clients,
              tried |-> <<>>]
  /\ UNCHANGED << clients, sock, nextConn, loopRest >>

\* clients.filter(x => x !== c) builds a new array: the one being iterated
\* stays as it is
Iterated_splice(arr, c) == SelectSeq(arr, LAMBDA x : x # c)
Iterated(arr, c) == arr

\* one turn of the loop: try { c.write(...) } catch (e) { ... }
LoopStep ==
  /\ iter.on /\ iter.k <= Len(iter.arr)
  /\ LET c      == iter.arr[iter.k]
         evicts == WriteThrows(c) /\ iter.op = "beat"
     IN /\ clients' = IF evicts THEN Unsubscribe(clients, c) ELSE clients
        /\ iter' = [iter EXCEPT !.arr = IF evicts THEN Iterated(@, c) ELSE @,
                                !.k = @ + 1,
                                !.tried = Append(@, c)]
  /\ UNCHANGED << sock, nextConn, loopRest >>

\* the loop is over; POST /send answers res.json({ ok: true })
LoopEnd ==
  /\ iter.on /\ iter.k > Len(iter.arr)
  /\ iter' = NoIter
  /\ UNCHANGED << clients, sock, nextConn, loopRest >>

LoopInit ==
  /\ messages = [i \in MsgIds |-> NoRow] /\ nextId = 0
  /\ StoreAtRest
  /\ BaseAtRest

LoopNext ==
  \/ \E c \in Conns : LoopSubscribe(c)
  \/ \E c \in Conns : LoopClose(c)
  \/ \E c \in Conns : LoopBreak(c)
  \/ \E op \in { "send", "beat" } : LoopStart(op)
  \/ LoopStep
  \/ LoopEnd

SpecLoop == LoopInit /\ [][LoopNext]_vars

\* ------------------------------------------- the start of server.js
\* `boot` follows the process from the evaluation of the module to listening
\* or exit: tables (the schema exists in the database), sweep (the
\* cleanupOldMessages call of the module body), schema (ensureSchema) and
\* listening (app.listen was called). `issued` lists the statements handed to
\* pool.query, each with the state of ensureSchema at that moment.
MaxQueries == 4   \* statements handed to pool.query in one run

startRest == << messages, audit_logs, nextId, clients, sock, nextConn, reqs,
                pubCount, lastPub, lastDone, stream, subAt, nSub, nUnsub, storeExt,
                hubExt, gateExt, roomExt, histExt, loopExt, raceExt >>

Query(q) == [q |-> q, schema |-> boot.schema]

\* The module body runs in one turn: cleanupOldMessages() is called and runs
\* to its pool.query(DELETE ...); then the start function is called and runs
\* to the pool.query(create) of ensureSchema.
ModuleLoad ==
  /\ boot.pc = "load"
  /\ issued' = << Query("DELETE"), [q |-> "CREATE", schema |-> "issued"] >>
  /\ boot' = [boot EXCEPT !.pc = "run", !.sweep = "issued", !.schema = "issued"]
  /\ UNCHANGED startRest

\* the DELETE of cleanupOldMessages completes: it fails when the messages
\* table does not exist or the database rejects it; the catch block logs that
SweepCompletes(ok) ==
  /\ boot.pc = "run" /\ boot.sweep = "issued"
  /\ boot' = [boot EXCEPT !.sweep = IF ok /\ boot.tables THEN "ok" ELSE "failed"]
  /\ UNCHANGED << issued, startRest >>

\* await ensureSchema() completes: on success the start function goes on to
\* the self-ping or to app.listen; on failure to process.exit(1)
SchemaCompletes(ok) ==
  /\ boot.pc = "run" /\ boot.schema = "issued"
  /\ boot' = IF ok
             THEN [boot EXCEPT !.schema = "done", !.tables = TRUE,
                               !.listening = ~boot.selfPing]
             ELSE [boot EXCEPT !.schema = "failed", !.pc = "exited"]
  /\ UNCHANGED << issued, startRest >>

\* await doSelfPingOnce() returns, whatever the ping did; app.listen follows
SelfPingReturns ==
  /\ boot.pc = "run" /\ boot.schema = "done" /\ boot.selfPing /\ ~boot.listening
  /\ boot' = [boot EXCEPT !.listening = TRUE]
  /\ UNCHANGED << issued, startRest >>

\* a request handler hands a statement to the pool
RequestQuery(q) ==
  /\ boot.pc = "run" /\ boot.listening
  /\ Len(issued) < MaxQueries
  /\ issued' = Append(issued, Query(q))
  /\ UNCHANGED << boot, startRest >>

\* setInterval(cleanupOldMessages, DAY_MS), armed 5 s after the module body
TimerSweep ==
  /\ boot.pc = "run" /\ boot.sweep # "issued"
  /\ Len(issued) < MaxQueries
  /\ issued' = Append(issued, Query("DELETE"))
  /\ boot' = [boot EXCEPT !.sweep = "issued"]
  /\ UNCHANGED startRest

\* the process starts on a database with or without the tables, with
\* ENABLE_SELF_PING and SELF_PING_URL set or not
StartInit ==
  /\ messages = [i \in MsgIds |-> NoRow] /\ nextId = 0
  /\ StoreAtRest
  /\ audit_logs = 0 /\ clients = <<>> /\ sock = [c \in Conns |-> "none"]
  /\ nextConn = 0 /\ reqs = [s \in Slots |-> IdleReq] /\ pubCount = 0
  /\ lastPub = NoPub /\ lastDone = IdleReq
  /\ stream = [c \in Conns |-> <<>>] /\ subAt = [c \in Conns |-> 0]
  /\ nSub = 0 /\ nUnsub = 0
  /\ HubAtRest
  /\ lastReq = NoReq /\ RoomsAtRest /\ HistAtRest /\ iter = NoIter /\ known = {}
  /\ issued = << >>
  /\ \E t, p \in BOOLEAN :
       boot = [NotStarted EXCEPT !.pc = "load", !.tables = t, !.selfPing = p]

StartNext ==
  \/ ModuleLoad
  \/ \E ok \in BOOLEAN : SweepCompletes(ok)
  \/ \E ok \in BOOLEAN : SchemaCompletes(ok)
  \/ SelfPingReturns
  \/ \E q \in { "SELECT", "INSERT" } : RequestQuery(q)
  \/ TimerSweep

SpecStart == StartInit /\ [][StartNext]_vars

\* ---------------------------------------------------------------- spec
\* The tables outlive the process (CREATE TABLE IF NOT EXISTS): it starts on an
\* empty messages table or on one holding a message of an earlier run.
Init ==
  /\ nextId \in {0, 1}
  /\ messages = [i \in MsgIds |-> IF i <= nextId
                                  THEN [text |-> <<"a">>, edited |-> FALSE,
                                        deleted |-> FALSE]
                                  ELSE NoRow]
  /\ audit_logs = 0
  /\ clients = <<>>
  /\ sock = [c \in Conns |-> "none"]
  /\ nextConn = 0
  /\ reqs = [s \in Slots |-> IdleReq]
  /\ pubCount = 0
  /\ lastPub = NoPub
  /\ lastDone = IdleReq
  /\ stream = [c \in Conns |-> <<>>]
  /\ subAt = [c \in Conns |-> 0]
  /\ nSub = 0
  /\ nUnsub = 0
  /\ StoreAtRest
  /\ HubAtRest
  /\ MoreAtRest

Next ==
  \/ \E s \in Slots, raw \in SendTexts, ok \in Outcomes : Send(s, raw, ok)
  \/ \E s \in Slots, ok \in Outcomes : SendBroadcast(s, ok)
  \/ \E s \in Slots, id \in MsgIds, raw \in EditTexts, ok \in Outcomes : Edit(s, id, raw, ok)
  \/ \E s \in Slots, ok \in Outcomes : EditBroadcast(s, ok)
  \/ \E s \in Slots, id \in MsgIds, ok \in Outcomes : Delete(s, id, ok)
  \/ \E s \in Slots, ok \in Outcomes : DeleteBroadcast(s, ok)
  \/ \E c \in Conns : Subscribe(c)
  \/ \E c \in Conns : TransportFail(c)
  \/ \E c \in Conns : Close(c)

Spec == Init /\ [][Next]_vars

\* --- the request handlers of server.js with no SSE client connected, and
\* edits that differ in their text
RaceTexts == { <<"b">>, <<"c", "_">> }

EditsNext ==
  \/ \E s \in Slots, raw \in SendTexts, ok \in Outcomes : Send(s, raw, ok)
  \/ \E s \in Slots, ok \in Outcomes : SendBroadcast(s, ok)
  \/ \E s \in Slots, id \in MsgIds, raw \in RaceTexts, ok \in Outcomes : Edit(s, id, raw, ok)
  \/ \E s \in Slots, ok \in Outcomes : EditBroadcast(s, ok)
  \/ \E s \in Slots, id \in MsgIds, ok \in Outcomes : Delete(s, id, ok)
  \/ \E s \in Slots, ok \in Outcomes : DeleteBroadcast(s, ok)

SpecEdits == Init /\ [][EditsNext]_vars

\* ------------------------------------------- a client that reads the backlog
\* The handlers of server.js with a client that learns message ids from
\* GET /messages and edits or deletes only messages it has read.
\* SELECT ... FROM messages WHERE deleted = false (unless include_deleted)
Listed(includeDeleted) ==
  { i \in MsgIds : messages[i] # NoRow /\ (includeDeleted \/ ~messages[i].deleted) }

\* GET /messages: res.json({ ok: true, rows: r.rows })
ReadBacklog(includeDeleted) ==
  /\ known' = known \cup Listed(includeDeleted)
  /\ Quiet /\ lastDone' = IdleReq
  /\ UNCHANGED << storeVars, hubVars, logVars, reqs, storeExt, hubExt, gateExt,
                  roomExt, histExt, loopExt, startExt >>

\* the client sends PUT or DELETE /messages/:id for an id it has read
EditKnown(s, id, raw, ok) == id \in known /\ Edit(s, id, raw, ok)
DeleteKnown(s, id, ok) == id \in known /\ Delete(s, id, ok)

RaceNext ==
  \/ \E s \in Slots, raw \in SendTexts, ok \in Outcomes : Send(s, raw, ok)
  \/ \E s \in Slots, ok \in Outcomes : SendBroadcast(s, ok)
  \/ \E includeDeleted \in BOOLEAN : ReadBacklog(includeDeleted)
  \/ \E s \in Slots, id \in MsgIds, raw \in EditTexts, ok \in Outcomes :
       EditKnown(s, id, raw, ok)
  \/ \E s \in Slots, ok \in Outcomes : EditBroadcast(s, ok)
  \/ \E s \in Slots, id \in MsgIds, ok \in Outcomes : DeleteKnown(s, id, ok)
  \/ \E s \in Slots, ok \in Outcomes : DeleteBroadcast(s, ok)

SpecRace == Init /\ [][RaceNext]_vars


\* ---------------------------------------------------------------- properties
Published == lastPub.seq # 0
Deleted(row) == row # NoRow /\ row.deleted
Last(q) == q[Len(q)]
Count(q, x) == Cardinality({ k \in 1..Len(q) : q[k] = x })
Seqs(c) == [k \in 1..Len(stream[c]) |-> stream[c][k].seq]

\* C1: an event is handed to broadcast only by a request whose store write
\* (INSERT or UPDATE) has completed successfully, and at that moment the change
\* it announces is in the messages table.
C1_WriteBeforeBroadcast ==
  /\ Published => lastPub.wrote = "ok" /\ lastPub.stored
  /\ \A s \in Slots : reqs[s].pc = "audit" => reqs[s].wrote = "ok"

C1_Witness ==
  /\ Published /\ lastPub.ev.type = "delete" /\ lastPub.wrote = "ok"
  /\ lastPub.reg # <<>>

\* C2: a request whose store write is rejected is answered 500 in that very
\* step; the step calls no broadcast, writes to no connection, leaves the
\* registry as it was, and the request is not left waiting to broadcast.
C2_FailedWrite ==
  lastDone'.wrote = "fail" =>
    /\ lastDone'.status = 500 /\ lastDone'.pub = 0
    /\ lastPub' = NoPub /\ pubCount' = pubCount
    /\ stream' = stream /\ clients' = clients
    /\ reqs' = reqs

C2_FailedWriteAborts == [][C2_FailedWrite]_vars

C2_Witness ==
  /\ lastDone.wrote = "fail" /\ lastDone.status = 500 /\ lastDone.kind = "edit"
  /\ Len(clients) = 2 /\ \E c \in Range(clients) : sock[c] = "open"

C5_OneWritePerConnection ==
  /\ Published =>
       /\ Len(lastPub.tried) = Len(lastPub.reg)
       /\ \A c \in Conns :
            Count(lastPub.tried, c) = IF c \in Range(lastPub.reg) THEN 1 ELSE 0
  /\ \A c \in Conns : \A k, j \in 1..Len(stream[c]) :
       stream[c][k].seq = stream[c][j].seq => k = j

C5_Witness ==
  /\ Published /\ Len(lastPub.tried) = 2 /\ Cardinality(lastPub.failed) = 1
  /\ \E c \in Conns : Len(stream[c]) = 2

\* C6: an event is written only to connections registered when it is
\* broadcast: none to a connection whose close handler has run, and a
\* connection never holds an event broadcast before it subscribed.
C6_OnlyRegisteredAtPublish ==
  /\ Published => \A c \in Range(lastPub.tried) :
                    c \in Range(lastPub.reg) /\ sock[c] \in {"open", "broken"}
  /\ \A c \in Conns : \A k \in 1..Len(stream[c]) : stream[c][k].seq > subAt[c]
  /\ \A c \in Conns : sock[c] \in {"none", "closed"} => c \notin Range(clients)

C6_Witness ==
  /\ Published /\ lastPub.seq = 2
  /\ sock[1] = "closed" /\ sock[2] = "open" /\ subAt[2] = 1
  /\ lastPub.tried = << 2 >> /\ Seqs(2) = << 2 >>

\* C7: the registry holds as many connections as were subscribed minus the
\* Unsubscribes that removed one, and unsubscribing a connection that is not in
\* the registry leaves it unchanged.
C7_RegistrySize ==
  /\ Len(clients) = nSub - nUnsub
  /\ \A c \in Conns : c \notin Range(clients) => Unsubscribe(clients, c) = clients

C7_Witness ==
  /\ nSub = 2 /\ nUnsub = 1 /\ Len(clients) = 1
  /\ \E c \in Conns : sock[c] = "closed" /\ Unsubscribe(clients, c) = clients

\* C8: a connection holds the events in the order broadcast was called for
\* them, and a connection that stays open holds every event broadcast since it
\* subscribed; so it holds the create of a message before an edit of it that
\* was broadcast later.
C8_DeliveredInPublishOrder ==
  \A c \in Conns :
    /\ \A k, j \in 1..Len(stream[c]) : k < j => stream[c][k].seq < stream[c][j].seq
    /\ sock[c] = "open" =>
         Seqs(c) = [k \in 1..(pubCount - subAt[c]) |-> subAt[c] + k]

C8_Witness ==
  \E c \in Conns :
    /\ sock[c] = "open" /\ Len(stream[c]) = 2
    /\ stream[c][1].type = "message" /\ stream[c][2].type = "edit"
    /\ stream[c][1].id = stream[c][2].id

\* C9 as stated: a delete of a record that is already soft-deleted is answered
\* 404 and broadcasts no delete event.
C9_SecondDeleteNotFound ==
  /\ lastDone.kind = "delete" /\ Deleted(lastDone.pre) => lastDone.status = 404
  /\ Published /\ lastPub.ev.type = "delete" => ~Deleted(lastPub.pre)

\* C10 as stated: an edit of a record that is already soft-deleted is answered
\* 404, leaves the row as it was and broadcasts no edit event.
C10_EditOfDeletedRejected ==
  /\ \A s \in Slots : reqs[s].kind = "edit" => ~Deleted(reqs[s].pre)
  /\ lastDone.kind = "edit" /\ Deleted(lastDone.pre) =>
       lastDone.status = 404 /\ lastDone.post = lastDone.pre
  /\ Published /\ lastPub.ev.type = "edit" => ~Deleted(lastPub.pre)

\* ------------------------------------------- retention sweep and backfill
Newest(ids) == CHOOSE i \in ids : \A j \in ids : j <= i
Live(i) == messages[i] # NoRow /\ ~messages[i].deleted
Readable(i) == Live(i) /\ messages[i].age <= RETENTION_DAYS

\* C11: cleanupOldMessages removes no row with deleted = false that was created
\* less than RETENTION_DAYS ago, and no row with deleted = true that was
\* soft-deleted less than the purge threshold ago (PURGE_DAYS, the smallest
\* threshold any of the servers uses).
C11_SweepSparesYoung ==
  \A r \in lastSweep :
    /\ ~r.row.deleted => r.row.age > RETENTION_DAYS
    /\ r.row.deleted => r.row.deleted_age > PURGE_DAYS

\* C12 as stated: every row the sweep removes is already marked deleted.
C12_OnlyDeletedSwept == \A r \in lastSweep : r.row.deleted

\* C12 as amended: a row leaves the messages table only in a step of
\* cleanupOldMessages, never by an edit or a delete request; the row removed is
\* marked deleted, or, in part_000 and part_004, is a row not marked deleted
\* that was created more than RETENTION_DAYS ago.
C12_Removal ==
  \A i \in RowIds :
    (messages[i] # NoRow /\ messages'[i] = NoRow) =>
      /\ [id |-> i, row |-> messages[i]] \in lastSweep'
      /\ \/ messages[i].deleted
         \/ variant # "server.js" /\ messages[i].age > RETENTION_DAYS

C12_RemovedOnlyBySweep == [][C12_Removal]_vars

C12_Witness ==
  /\ variant = "part_000"
  /\ \E r \in lastSweep : ~r.row.deleted /\ r.row.edited
  /\ \E i \in RowIds : messages[i] # NoRow /\ messages[i].deleted

\* C13: once the client has read its backfill and registered its GET /events,
\* backfill and stream together hold every readable message created before the
\* read and every message announced after the registration, and hold a message
\* created between the read and the registration at most once.
C13_CombinedView ==
  view.phase = "live" =>
    /\ view.before \subseteq Range(view.back) \cup Range(view.got)
    /\ (Announced \ view.seen0) \subseteq Range(view.got)
    /\ \A i \in (view.cut + 1)..view.regCut :
         Count(view.back, i) + Count(view.got, i) <= 1

\* C14: a GET /messages answered 200 returns the most recently created of the
\* rows its WHERE clause selects, whether they are more than `limit` or not.
C14_NewestReturned ==
  lastRead.status = 200 =>
    LET sel == { i \in RowIds :
                   Selected(messages[i], lastRead.group, lastRead.includeDeleted) }
    IN  sel # {} => Newest(sel) \in Range(lastRead.rows.ids)

\* C15: a GET /messages answered 200 returns only rows created at most
\* RETENTION_DAYS ago, at most `limit` rows, in the order of their creation, no
\* row marked deleted unless include_deleted was asked for, and with a group
\* only rows of that group.
C15_ReadFilters ==
  lastRead.status = 200 =>
    LET ids == lastRead.rows.ids IN
    /\ \A k \in 1..Len(ids) : messages[ids[k]].age <= RETENTION_DAYS
    /\ lastRead.rows.bulk > 0 => bulk.age <= RETENTION_DAYS
    /\ lastRead.rows.bulk + Len(ids) <= lastRead.limit
    /\ \A j, k \in 1..Len(ids) : j < k => ids[j] < ids[k]
    /\ ~lastRead.includeDeleted => \A k \in 1..Len(ids) : ~messages[ids[k]].deleted
    /\ lastRead.group # NoGroup =>
         \A k \in 1..Len(ids) : messages[ids[k]].grp = lastRead.group

\* C16: a message whose handler was stopped between INSERT and broadcast is in
\* the messages table, was written to no connection, and is returned by every
\* later GET /messages for all groups while it is readable.
C16_OrphanRecoverable ==
  \A o \in orphans :
    /\ messages[o] # NoRow
    /\ o \notin Range(view.got)
    /\ (lastRead.status = 200 /\ lastRead.group = NoGroup /\ Readable(o))
         => o \in Range(lastRead.rows.ids)

\* ------------------------------------------- the hub of part_000
Registered(c) == c \in Range(clients)

\* C17: a connection whose transport the peer has closed leaves the registry
\* in the end, whether its close event arrives or is lost, while keep-alives
\* and broadcasts go on being written.
C17_ClosedEventuallyRemoved ==
  \A c \in Conns : (sock[c] \in { "gone", "lost" } /\ Registered(c)) ~> ~Registered(c)

\* C18: after a run of cleanupDeadClients no registered client has been idle
\* for more than MaxIdle, every client dropped for idleness has had res.end()
\* called, and every client that was not finished and not idle for more than
\* MaxIdle is still registered.
C18_ReapExact ==
  lastHub.op = "reap" =>
    /\ \A c \in Range(clients) : idle[c] <= MaxIdle
    /\ \A c \in Range(lastHub.reg) :
         (idle[c] > MaxIdle /\ ~lastHub.finishedBefore[c]) =>
           (finished[c] /\ c \in lastHub.ended /\ ~Registered(c))
    /\ \A c \in Range(lastHub.reg) :
         (idle[c] <= MaxIdle /\ ~lastHub.finishedBefore[c]) => Registered(c)

C18_Witness ==
  /\ lastHub.op = "reap" /\ lastHub.ended # {}
  /\ \E c \in Range(clients) : idle[c] = MaxIdle

C20_SubscribeRegisters ==
  /\ lastHub.op = "subscribe" =>
       Count(clients, lastHub.who) = 1 /\ idle[lastHub.who] = 0
  /\ \A c \in 1..nextConn : (sock[c] = "open" /\ ~finished[c]) => Registered(c)
  /\ lastHub.op = "broadcast" =>
       \A c \in Range(lastHub.reg) : Count(lastHub.tried, c) >= 1

C20_Witness ==
  /\ lastHub.op = "broadcast"
  /\ Len(lastHub.reg) = nextConn /\ nextConn > 1
  /\ lastHub.idleBefore[nextConn] = 0

\* C21: an identifier is in the registry at most once, and an identifier that
\* enters the registry is one no connection was given before: the identifier
\* of a removed connection is never registered again.
C21_IdsNeverReused ==
  /\ [](\A c \in Conns : Count(clients, c) <= 1)
  /\ [][\A c \in Conns :
         (~Registered(c) /\ Registered(c)') => (c > nextConn /\ nextConn' = c)]_vars

C21_Witness ==
  /\ lastHub.op = "subscribe" /\ Registered(lastHub.who)
  /\ \E c \in 1..nextConn :
       c # lastHub.who /\ ~Registered(c) /\ (sock[c] = "closed" \/ finished[c])

\* ------------------------------------------- the token-checking handlers
\* the token of the request passed verifyAuthToken, or the variant asks for none
Admitted == ~HasTokens \/ lastReq.auth \notin { Null, Thrown }

\* C22: a POST /send whose text is empty after trimming and that carries no
\* image is answered 400 before any statement is issued to the store, and
\* nothing is broadcast for it.
C22_InvalidRejected ==
  (lastReq.op = "send" /\ Admitted /\ lastReq.text = << >> /\ lastReq.image = NoImage)
    => (lastReq.status = 400 /\ lastReq.queries = << >> /\ lastReq.events = << >>)

\* a token that is missing, malformed, not signed by the server, or expired
BadToken(tok) ==
  \/ tok = NoToken
  \/ tok.parts # 3
  \/ tok.sig # "signed"
  \/ tok.age > TokenDays

\* C23: in the variants that take the sender from a token, a POST /send or
\* DELETE /messages/:id whose token is missing, malformed, wrongly signed or
\* expired is answered with an error before any statement is issued: no row is
\* inserted or updated and nothing is broadcast.
C23_BadTokenRejected ==
  [][(HasTokens /\ lastReq'.op \in { "send", "delete" } /\ BadToken(lastReq'.tok))
       => /\ lastReq'.status >= 400
          /\ lastReq'.queries = << >>
          /\ lastReq'.events = << >>
          /\ messages' = messages /\ nextId' = nextId]_vars

C23_Witness ==
  /\ HasTokens /\ lastReq.op = "delete" /\ lastReq.status = 401
  /\ lastReq.tok.parts = 3 /\ lastReq.tok.sig = "signed" /\ lastReq.tok.age > TokenDays
  /\ lastReq.pre # NoRow /\ ~lastReq.pre.deleted /\ lastReq.pre.sender = lastReq.tok.user

\* C24: a DELETE /messages/:id whose target does not exist, is already
\* deleted, or belongs to another sender is answered with an error and
\* broadcasts nothing.
C24_BadTargetFails ==
  (/\ lastReq.op = "delete"
   /\ \/ lastReq.pre = NoRow
      \/ lastReq.pre.deleted
      \/ (HasTokens /\ lastReq.pre.sender # lastReq.auth))
    => (lastReq.status >= 400 /\ lastReq.events = << >>)

\* C25: in the variants that record the owner of a message, a row goes from
\* not deleted to deleted only in a DELETE /messages/:id for that id whose
\* token was issued to the sender stored in the row; a delete by any other
\* identity leaves the table as it was.
C25_OnlyOwnerDeletes ==
  [][HasTokens =>
       /\ \A i \in PostIds :
            (messages[i] # NoRow /\ ~messages[i].deleted
               /\ messages'[i] # NoRow /\ messages'[i].deleted)
              => /\ lastReq'.op = "delete" /\ lastReq'.id = i
                 /\ ~BadToken(lastReq'.tok)
                 /\ lastReq'.tok.user = messages[i].sender
       /\ (lastReq'.op = "delete" /\ messages[lastReq'.id] # NoRow
             /\ (BadToken(lastReq'.tok)
                   \/ lastReq'.tok.user # messages[lastReq'.id].sender))
            => (messages' = messages /\ lastReq'.events = << >>)]_vars

C25_Witness ==
  /\ HasTokens /\ lastReq.op = "delete" /\ lastReq.status = 403
  /\ lastReq.pre # NoRow /\ ~lastReq.pre.deleted
  /\ ~BadToken(lastReq.tok) /\ lastReq.tok.user # lastReq.pre.sender
  /\ messages[lastReq.id] = lastReq.pre

C27_OnlyCurrentRoom ==
  lastMsg.op = "msg" => \A p \in lastMsg.to : currentRoom[p] = lastMsg.room

\* ------------------------------------------- the loops of part_006
\* C28: while a loop over the registry is running, the array it iterates is
\* the registry as the loop found it: no subscribe, close or eviction changes
\* it, and the loop writes once, in order, to each client of that array.
C28_LoopOverSnapshot ==
  iter.on =>
    /\ iter.arr = iter.snap
    /\ iter.k <= Len(iter.snap) + 1
    /\ iter.tried = SubSeq(iter.snap, 1, iter.k - 1)

C28_Witness ==
  /\ iter.on /\ iter.op = "beat" /\ iter.k > Len(iter.snap)
  /\ Len(iter.snap) > 1 /\ clients # iter.snap

\* ------------------------------------------- the history of index.js
\* C29: no two messages of the in-memory history have the same id.
C29_HistoryIdsUnique ==
  \A i, j \in 1..Len(messages) : i # j => messages[i].id # messages[j].id

\* C30: once two edits of the same message have both been broadcast and no
\* request is waiting, the text of the last edit event is the text in the
\* messages table.
C30_LastEditIsStored ==
  (Published /\ lastPub.ev.type = "edit" /\ InFlight = {})
    => lastPub.ev.text = messages[lastPub.ev.id].text

\* ------------------------------------------- a client that reads the backlog
\* C31: no edit or delete event for a message is handed to broadcast while
\* the request that created the message has not yet broadcast its create
\* event.
C31_CreateEventFirst ==
  (Published /\ lastPub.ev.type \in { "edit", "delete" })
    => \A s \in Slots :
         ~(reqs[s].kind = "create" /\ reqs[s].pc = "audit" /\ reqs[s].id = lastPub.ev.id)

\* ------------------------------------------- the audit log of server.js
\* C32: a request whose message write succeeded and whose audit-log insert
\* failed still broadcasts its event, to every registered client, and is
\* answered 200; the audit_logs table gets no row for it.
C32_AuditFailureNonFatal ==
  (lastDone.pc = "done" /\ lastDone.audit = "fail")
    => /\ lastDone.wrote = "ok" /\ lastDone.status = 200
       /\ Published /\ lastPub.seq = lastDone.pub /\ lastPub.ev.id = lastDone.id
       /\ lastPub.ev.type =
            (CASE lastDone.kind = "create" -> "message"
               [] lastDone.kind = "edit" -> "edit"
               [] OTHER -> "delete")
       /\ lastPub.tried = lastPub.reg

C32_Witness ==
  /\ lastDone.pc = "done" /\ lastDone.audit = "fail" /\ lastDone.kind = "edit"
  /\ lastDone.status = 200 /\ Len(lastPub.reg) > 0 /\ audit_logs = 0

\* ------------------------------------------- verifyAuthToken
\* C33: for a token that is absent, malformed, wrongly signed (a signature of
\* the wrong value or of the wrong length) or older than TokenDays,
\* verifyAuthToken returns null without throwing and the request is answered
\* 401; it returns an identity only for a token signed for that identity
\* within the last TokenDays.
C33_VerifyNeverThrows ==
  (HasTokens /\ lastReq.op \in { "send", "delete" }) =>
    /\ BadToken(lastReq.tok) => (lastReq.auth = Null /\ lastReq.status = 401)
    /\ lastReq.auth \notin { Null, Thrown } =>
         (~BadToken(lastReq.tok) /\ lastReq.auth = lastReq.tok.user)

\* ------------------------------------------- room membership in chat-worker.js
RoomsOf(k) == { r \in RoomNames : k \in rooms[r] }

\* C34: a socket is in the Set of at most one room at any time, and in none
\* once its close event has been handled.
C34_AtMostOneRoom ==
  \A k \in Sockets :
    /\ Cardinality(RoomsOf(k)) <= 1
    /\ readyState[k] = 3 => RoomsOf(k) = {}

\* ------------------------------------------- the history of index.js
\* C35: the history never holds more than HistoryCap messages; a message
\* received is appended to it, and when that would exceed HistoryCap the
\* oldest message is the one dropped; the init frame sent to a new
\* connection is the history at that time, in arrival order.
C35_HistoryBounded ==
  /\ [](Len(messages) <= HistoryCap)
  /\ [](lastOut.type = "init" => lastOut.messages = messages)
  /\ [][lastOut'.type = "message" =>
          messages' = (IF Len(messages) = HistoryCap THEN Tail(messages) ELSE messages)
                        \o << lastOut'.message >>]_vars

C35_Witness ==
  /\ lastOut.type = "init" /\ Len(lastOut.messages) = HistoryCap
  /\ lastOut.messages[1].id > 1 - HistoryCap
  /\ lastOut.messages[HistoryCap].id >= 0

\* ------------------------------------------- soft-deleted rows
\* C37: a soft-deleted row that stays in the table stays deleted, and no
\* request moves its deleted_at forward: the time since its deletion never
\* goes back.
C37_DeletionNotPostponed ==
  [][\A i \in RowIds :
       (messages[i] # NoRow /\ messages[i].deleted /\ messages'[i] # NoRow)
         => /\ messages'[i].deleted
            /\ messages'[i].deleted_age >= messages[i].deleted_age]_vars

\* ------------------------------------------- the start of server.js
\* C36: every statement other than the schema creation is handed to the pool
\* after ensureSchema has completed; the server listens only after
\* ensureSchema succeeded and never after it failed.
C36_SchemaFirst ==
  /\ \A k \in 1..Len(issued) : issued[k].q # "CREATE" => issued[k].schema = "done"
  /\ boot.listening => boot.schema = "done"
  /\ boot.schema = "failed" => (~boot.listening /\ boot.pc = "exited")

====
